---- MODULE Spec2Model ----
(***************************************************************************)
(* Model of the "revisao de laudo" API (src/main.py): the pydantic models  *)
(* RequestingPhysician, AssignedProfessional, ReviewReasons, ReviewRequest *)
(* with their field and model validators, and the POST handler             *)
(* create_review_request.                                                  *)
(*                                                                         *)
(* A text is a sequence of one-character strings.  A raw JSON value is a   *)
(* record [tag, s, n]: null, a string (s) or a number (n).  An optional    *)
(* value is a sequence of length 0 (None) or 1.                            *)
(***************************************************************************)
EXTENDS Integers, Sequences, FiniteSets, TLC

VARIABLES
    pc,          \* position of the request: "idle", "item", "fields",
                 \* "validated", "done"
    apiKey,      \* x-api-key header of the request in flight
    bodyLen,     \* number of elements of the JSON array in the body
    idx,         \* number of elements validation has gone through
    raw,         \* the array element under validation (parsed JSON)
    item,        \* the ReviewRequest built from it: <<>> or <<request>>
    errors,      \* validation errors reported for that element
    topEvaluated,\* whether validate_business_rules ran on that element
    failed,      \* whether some element so far has validation errors
    payloadLen,  \* len(payload): elements validated into ReviewRequest
    response,    \* the HTTP response
    fin,         \* field-rule harness: the raw value given to a validator
    fout         \* field-rule harness: <<>> or <<result of the validator>>

vars == <<pc, apiKey, bodyLen, idx, raw, item, errors, topEvaluated, failed,
          payloadLen, response, fin, fout>>

----------------------------------------------------------------------------
(* Bounds of the model *)

MaxLen == 3
MaxInt == 11
MaxPad == 1
MaxDeviations == 2
MaxBodyDeviations == 1
MaxItems == 2

(* Program constant: the length a CPF must have *)
CpfLen == 11

----------------------------------------------------------------------------
(* Raw JSON values and Python's str *)

Null == [tag |-> "null", s |-> <<>>, n |-> 0]
Str(s) == [tag |-> "str", s |-> s, n |-> 0]
Num(n) == [tag |-> "int", s |-> <<>>, n |-> n]

DigitChars == <<"0", "1", "2", "3", "4", "5", "6", "7", "8", "9">>
Digits == {DigitChars[i] : i \in 1..10}
Whitespace == {" ", "\t", "\n"}

RECURSIVE Decimal(_)
Decimal(n) ==
    IF n < 10 THEN <<DigitChars[n + 1]>>
    ELSE Append(Decimal(n \div 10), DigitChars[(n % 10) + 1])

\* str(value) for a value that is not None
PyStr(value) == IF value.tag = "int" THEN Decimal(value.n) ELSE value.s

RECURSIVE LStrip(_)
LStrip(s) ==
    IF s # <<>> /\ Head(s) \in Whitespace THEN LStrip(Tail(s)) ELSE s

RECURSIVE RStrip(_)
RStrip(s) ==
    IF s # <<>> /\ s[Len(s)] \in Whitespace
    THEN RStrip(SubSeq(s, 1, Len(s) - 1)) ELSE s

\* str.strip()
Strip(s) == RStrip(LStrip(s))

\* str.isdigit()
IsDigit(s) == s # <<>> /\ \A i \in 1..Len(s) : s[i] \in Digits

----------------------------------------------------------------------------
(* Field validators.  A result is [ok, err, value]. *)

Ok(v) == [ok |-> TRUE, err |-> "", value |-> v]
Err(msg) == [ok |-> FALSE, err |-> msg, value |-> <<>>]

NotEmptyKeepsPadding(value) ==
    IF value.tag = "null" THEN Err("null")
    ELSE IF Strip(PyStr(value)) = <<>> THEN Err("empty")
    ELSE Ok(PyStr(value))

\* str(None) is "None"
NotEmptyWithoutNullCheck(value) ==
    LET value_str == IF value.tag = "null" THEN <<"N", "o", "n", "e">>
                     ELSE Strip(PyStr(value))
    IN  IF value_str = <<>> THEN Err("empty") ELSE Ok(value_str)

\* RequestingPhysician.not_empty
Physician_not_empty(value) ==
    IF value.tag = "null" THEN Err("null")
    ELSE LET value_str == Strip(PyStr(value))
         IN  IF value_str = <<>> THEN Err("empty") ELSE Ok(value_str)

\* AssignedProfessional.not_empty
Professional_not_empty(value) ==
    IF value.tag = "null" THEN Err("null")
    ELSE LET value_str == Strip(PyStr(value))
         IN  IF value_str = <<>> THEN Err("empty") ELSE Ok(value_str)

\* ReviewRequest.not_empty
Request_not_empty(value) ==
    IF value.tag = "null" THEN Err("null")
    ELSE LET value_str == Strip(PyStr(value))
         IN  IF value_str = <<>> THEN Err("empty") ELSE Ok(value_str)

CpfLengthOffByOne(value) ==
    IF ~IsDigit(value) THEN Err("cpf_digits")
    ELSE IF Len(value) < CpfLen THEN Err("cpf_length")
    ELSE Ok(value)

\* RequestingPhysician.validate_cpf_digits
validate_cpf_digits(value) ==
    IF ~IsDigit(value) THEN Err("cpf_digits")
    ELSE IF Len(value) # CpfLen THEN Err("cpf_length")
    ELSE Ok(value)

\* The cpf field: the "before" validator, then the "after" validator
CpfField(value) ==
    LET r == Physician_not_empty(value)
    IN  IF r.ok THEN validate_cpf_digits(r.value) ELSE r

----------------------------------------------------------------------------
(* Validation errors: [loc, msg], loc the path of the field ("" = the item) *)

FieldErr(loc, r) == IF r.ok THEN {} ELSE {[loc |-> loc, msg |-> r.err]}

\* Whether a model validator declared mode="after" runs, given the errors
\* of the model's fields
RunsAfterValidator(fieldErrors) == fieldErrors = {}

\* Syntactic shape local-part@domain, the domain holding an inner dot
IsEmailShape(s) ==
    LET ats == {i \in 1..Len(s) : s[i] = "@"}
    IN  /\ Cardinality(ats) = 1
        /\ \A i \in 1..Len(s) : s[i] \notin Whitespace
        /\ \E i \in ats :
              /\ i > 1
              /\ \E j \in (i + 2)..(Len(s) - 1) : s[j] = "."

\* The EmailStr field type
EmailStr(value) ==
    IF value.tag # "str" THEN Err("string_type")
    ELSE LET email == Strip(value.s)
         IN  IF IsEmailShape(email) THEN Ok(email) ELSE Err("email")

\* The Optional[str] field type: result value is <<>> (None) or <<text>>
OptionalStr(value) ==
    IF value.tag = "null" THEN Ok(<<>>)
    ELSE IF value.tag = "str" THEN Ok(<<value.s>>)
    ELSE Err("string_type")

\* RequestingPhysician(**p): [errors, value]
ValidatePhysician(p) ==
    LET name == Physician_not_empty(p.name)
        councilCode == Physician_not_empty(p.councilCode)
        regNumber == Physician_not_empty(p.professionalRegistrationNumber)
        councilStateCode == Physician_not_empty(p.councilStateCode)
        phone == Physician_not_empty(p.phone)
        email == EmailStr(p.email)
        cpf == CpfField(p.cpf)
    IN  [errors |->
            FieldErr("requestingPhysician.name", name)
            \cup FieldErr("requestingPhysician.councilCode", councilCode)
            \cup FieldErr("requestingPhysician.professionalRegistrationNumber",
                          regNumber)
            \cup FieldErr("requestingPhysician.councilStateCode",
                          councilStateCode)
            \cup FieldErr("requestingPhysician.phone", phone)
            \cup FieldErr("requestingPhysician.email", email)
            \cup FieldErr("requestingPhysician.cpf", cpf),
         value |->
            [name |-> name.value,
             councilCode |-> councilCode.value,
             professionalRegistrationNumber |-> regNumber.value,
             councilStateCode |-> councilStateCode.value,
             phone |-> phone.value,
             email |-> email.value,
             cpf |-> cpf.value]]

ProfessionalContentIgnored(opt) == [errors |-> {}, value |-> <<>>]

\* Optional[AssignedProfessional]: opt is <<>> or <<[professionalCode,
\* professionalName]>>
ValidateProfessional(opt) ==
    IF opt = <<>> THEN [errors |-> {}, value |-> <<>>]
    ELSE LET professionalCode == Professional_not_empty(opt[1].professionalCode)
             professionalName == Professional_not_empty(opt[1].professionalName)
         IN  [errors |->
                 FieldErr("assignedProfessional.professionalCode",
                          professionalCode)
                 \cup FieldErr("assignedProfessional.professionalName",
                               professionalName),
              value |->
                 <<[professionalCode |-> professionalCode.value,
                    professionalName |-> professionalName.value]>>]

ReasonsCountDescription(self) ==
    LET has_any_true ==
            \/ self.lateralityError
            \/ self.orthographicError
            \/ self.diagnosticDivergence
            \/ self.wrongExamTopography
            \/ self.measurementDivergence
            \/ self.other
            \/ self.otherDescription # <<>>
    IN  IF ~has_any_true THEN {[loc |-> "reviewReasons", msg |-> "no_reason"]}
        ELSE IF /\ self.other
                /\ \/ self.otherDescription = <<>>
                   \/ Strip(self.otherDescription[1]) = <<>>
             THEN {[loc |-> "reviewReasons",
                    msg |-> "missing_other_description"]}
        ELSE {}

ReasonsDescriptionNotStripped(self) ==
    LET has_any_true ==
            \/ self.lateralityError
            \/ self.orthographicError
            \/ self.diagnosticDivergence
            \/ self.wrongExamTopography
            \/ self.measurementDivergence
            \/ self.other
    IN  IF ~has_any_true THEN {[loc |-> "reviewReasons", msg |-> "no_reason"]}
        ELSE IF /\ self.other
                /\ \/ self.otherDescription = <<>>
                   \/ self.otherDescription[1] = <<>>
             THEN {[loc |-> "reviewReasons",
                    msg |-> "missing_other_description"]}
        ELSE {}

\* ReviewReasons.validate_reasons: the error it raises, if any
validate_reasons(self) ==
    LET has_any_true ==
            \/ self.lateralityError
            \/ self.orthographicError
            \/ self.diagnosticDivergence
            \/ self.wrongExamTopography
            \/ self.measurementDivergence
            \/ self.other
    IN  IF ~has_any_true THEN {[loc |-> "reviewReasons", msg |-> "no_reason"]}
        ELSE IF /\ self.other
                /\ \/ self.otherDescription = <<>>
                   \/ Strip(self.otherDescription[1]) = <<>>
             THEN {[loc |-> "reviewReasons",
                    msg |-> "missing_other_description"]}
        ELSE {}

\* ReviewReasons(**rr): [errors, value]
ValidateReasons(rr) ==
    LET otherDescription == OptionalStr(rr.otherDescription)
        fieldErrors ==
            FieldErr("reviewReasons.otherDescription", otherDescription)
        self == [lateralityError |-> rr.lateralityError,
                 orthographicError |-> rr.orthographicError,
                 diagnosticDivergence |-> rr.diagnosticDivergence,
                 wrongExamTopography |-> rr.wrongExamTopography,
                 measurementDivergence |-> rr.measurementDivergence,
                 other |-> rr.other,
                 otherDescription |-> otherDescription.value]
    IN  [errors |-> IF RunsAfterValidator(fieldErrors)
                    THEN validate_reasons(self) ELSE fieldErrors,
         value |-> self]

\* The fields of ReviewRequest, nested models included: [errors, value]
ValidateRequestFields(r) ==
    LET accessionNumber == Request_not_empty(r.accessionNumber)
        requestingPhysician == ValidatePhysician(r.requestingPhysician)
        assignedProfessional == ValidateProfessional(r.assignedProfessional)
        reviewJustification == Request_not_empty(r.reviewJustification)
        reviewReasons == ValidateReasons(r.reviewReasons)
    IN  [errors |->
            FieldErr("accessionNumber", accessionNumber)
            \cup requestingPhysician.errors
            \cup assignedProfessional.errors
            \cup FieldErr("reviewJustification", reviewJustification)
            \cup reviewReasons.errors,
         value |->
            [accessionNumber |-> accessionNumber.value,
             requestingPhysician |-> requestingPhysician.value,
             freeAssignmentFlag |-> r.freeAssignmentFlag,
             assignedProfessional |-> assignedProfessional.value,
             reviewJustification |-> reviewJustification.value,
             reviewReasons |-> reviewReasons.value]]

\* ReviewRequest.validate_business_rules: the error it raises, if any
validate_business_rules(self) ==
    IF self.accessionNumber = <<>> \/ Strip(self.accessionNumber) = <<>>
    THEN {[loc |-> "", msg |-> "accession_required"]}
    ELSE IF \/ self.reviewJustification = <<>>
            \/ Strip(self.reviewJustification) = <<>>
    THEN {[loc |-> "", msg |-> "justification_required"]}
    ELSE IF self.freeAssignmentFlag = FALSE /\ self.assignedProfessional = <<>>
    THEN {[loc |-> "", msg |-> "assigned_professional_required"]}
    ELSE {}

AfterValidatorAlwaysRuns(fieldErrors) == TRUE

\* Whether ReviewRequest's model validator runs, given its fields' errors
RequestRulesRun(fieldErrors) == RunsAfterValidator(fieldErrors)

\* ReviewRequest.model_validate(r): [errors, value]
ValidateRequest(r) ==
    LET f == ValidateRequestFields(r)
    IN  [errors |-> IF RequestRulesRun(f.errors)
                    THEN validate_business_rules(f.value) ELSE f.errors,
         value |-> f.value]

OptText(opt) == IF opt = <<>> THEN Null ELSE Str(opt[1])

\* The validated ReviewRequest written back in the shape of the input
Serialize(self) ==
    [accessionNumber |-> Str(self.accessionNumber),
     requestingPhysician |->
        [name |-> Str(self.requestingPhysician.name),
         councilCode |-> Str(self.requestingPhysician.councilCode),
         professionalRegistrationNumber |->
            Str(self.requestingPhysician.professionalRegistrationNumber),
         councilStateCode |-> Str(self.requestingPhysician.councilStateCode),
         phone |-> Str(self.requestingPhysician.phone),
         email |-> Str(self.requestingPhysician.email),
         cpf |-> Str(self.requestingPhysician.cpf)],
     freeAssignmentFlag |-> self.freeAssignmentFlag,
     assignedProfessional |->
        IF self.assignedProfessional = <<>> THEN <<>>
        ELSE <<[professionalCode |->
                   Str(self.assignedProfessional[1].professionalCode),
                professionalName |->
                   Str(self.assignedProfessional[1].professionalName)]>>,
     reviewJustification |-> Str(self.reviewJustification),
     reviewReasons |->
        [lateralityError |-> self.reviewReasons.lateralityError,
         orthographicError |-> self.reviewReasons.orthographicError,
         diagnosticDivergence |-> self.reviewReasons.diagnosticDivergence,
         wrongExamTopography |-> self.reviewReasons.wrongExamTopography,
         measurementDivergence |-> self.reviewReasons.measurementDivergence,
         other |-> self.reviewReasons.other,
         otherDescription |-> OptText(self.reviewReasons.otherDescription)]]

----------------------------------------------------------------------------
(* Inputs: the request bodies and field values the model draws from *)

Pad(k) == [i \in 1..k |-> " "]

\* n characters, digits 1234567890... with a letter at position k (none if 0)
CpfBody(n, k) ==
    [i \in 1..n |-> IF i = k THEN "a" ELSE DigitChars[(i % 10) + 1]]

CpfTexts ==
    {Pad(l) \o CpfBody(n, k) \o Pad(r) :
        l \in 0..MaxPad, r \in 0..MaxPad,
        n \in (CpfLen - 1)..(CpfLen + 1), k \in {0, 1, CpfLen - 1, CpfLen}}

FieldAlphabet == {" ", "\t", "a", "7"}

Texts == UNION {[1..m -> FieldAlphabet] : m \in 0..MaxLen}

\* Values a required text field is given in the field-rule harness
FieldInputs ==
    {Null} \cup {Num(n) : n \in 0..MaxInt}
    \cup {Str(s) : s \in Texts \cup CpfTexts}

ValidProfessional ==
    [professionalCode |-> Str(<<"a">>), professionalName |-> Str(<<"a">>)]

\* A request that satisfies every rule
BaseRequest ==
    [accessionNumber |-> Str(<<"a">>),
     requestingPhysician |->
        [name |-> Str(<<"a">>),
         councilCode |-> Str(<<"a">>),
         professionalRegistrationNumber |-> Str(<<"7">>),
         councilStateCode |-> Str(<<"a">>),
         phone |-> Str(<<"7">>),
         email |-> Str(<<"a", "@", "a", ".", "a">>),
         cpf |-> Str(CpfBody(CpfLen, 0))],
     freeAssignmentFlag |-> FALSE,
     assignedProfessional |-> <<ValidProfessional>>,
     reviewJustification |-> Str(<<"a">>),
     reviewReasons |->
        [lateralityError |-> TRUE,
         orthographicError |-> FALSE,
         diagnosticDivergence |-> FALSE,
         wrongExamTopography |-> FALSE,
         measurementDivergence |-> FALSE,
         other |-> FALSE,
         otherDescription |-> Null]]

TextPaths ==
    {"accessionNumber", "reviewJustification", "name", "councilCode",
     "professionalRegistrationNumber", "councilStateCode", "phone",
     "professionalCode", "professionalName"}

FlagPaths ==
    {"lateralityError", "orthographicError", "diagnosticDivergence",
     "wrongExamTopography", "measurementDivergence", "other",
     "freeAssignmentFlag"}

TextDeviations == {Null, Str(<<" ">>), Str(<<" ", "a", "\t">>), Num(7)}

CpfDeviations ==
    {Str(CpfBody(CpfLen - 1, 0)), Str(CpfBody(CpfLen, CpfLen)),
     Str(Pad(1) \o CpfBody(CpfLen, 0) \o Pad(1)), Num(7)}

EmailDeviations ==
    {Null, Str(<<"a", "@", "a">>),
     Str(<<" ", "a", "@", "a", ".", "a", " ">>)}

DescriptionDeviations ==
    {Str(<<>>), Str(<<" ">>), Str(<<"a">>), Str(<<" ", "a", " ">>), Num(7)}

\* One change to a request: a field given another value, a flag flipped
\* (v unused), or assignedProfessional left out (v unused)
Edits ==
    {[path |-> p, v |-> v] : p \in TextPaths, v \in TextDeviations}
    \cup {[path |-> "cpf", v |-> v] : v \in CpfDeviations}
    \cup {[path |-> "email", v |-> v] : v \in EmailDeviations}
    \cup {[path |-> "otherDescription", v |-> v] : v \in DescriptionDeviations}
    \cup {[path |-> p, v |-> Null] : p \in FlagPaths \cup {"assignedProfessional"}}

Apply(r, e) ==
    CASE e.path = "accessionNumber" -> [r EXCEPT !.accessionNumber = e.v]
      [] e.path = "reviewJustification" ->
            [r EXCEPT !.reviewJustification = e.v]
      [] e.path = "name" -> [r EXCEPT !.requestingPhysician.name = e.v]
      [] e.path = "councilCode" ->
            [r EXCEPT !.requestingPhysician.councilCode = e.v]
      [] e.path = "professionalRegistrationNumber" ->
            [r EXCEPT !.requestingPhysician.professionalRegistrationNumber =
                         e.v]
      [] e.path = "councilStateCode" ->
            [r EXCEPT !.requestingPhysician.councilStateCode = e.v]
      [] e.path = "phone" -> [r EXCEPT !.requestingPhysician.phone = e.v]
      [] e.path = "email" -> [r EXCEPT !.requestingPhysician.email = e.v]
      [] e.path = "cpf" -> [r EXCEPT !.requestingPhysician.cpf = e.v]
      [] e.path = "professionalCode" ->
            IF r.assignedProfessional = <<>> THEN r
            ELSE [r EXCEPT !.assignedProfessional[1].professionalCode = e.v]
      [] e.path = "professionalName" ->
            IF r.assignedProfessional = <<>> THEN r
            ELSE [r EXCEPT !.assignedProfessional[1].professionalName = e.v]
      [] e.path = "assignedProfessional" ->
            [r EXCEPT !.assignedProfessional = <<>>]
      [] e.path = "freeAssignmentFlag" ->
            [r EXCEPT !.freeAssignmentFlag = ~@]
      [] e.path = "lateralityError" ->
            [r EXCEPT !.reviewReasons.lateralityError = ~@]
      [] e.path = "orthographicError" ->
            [r EXCEPT !.reviewReasons.orthographicError = ~@]
      [] e.path = "diagnosticDivergence" ->
            [r EXCEPT !.reviewReasons.diagnosticDivergence = ~@]
      [] e.path = "wrongExamTopography" ->
            [r EXCEPT !.reviewReasons.wrongExamTopography = ~@]
      [] e.path = "measurementDivergence" ->
            [r EXCEPT !.reviewReasons.measurementDivergence = ~@]
      [] e.path = "other" -> [r EXCEPT !.reviewReasons.other = ~@]
      [] e.path = "otherDescription" ->
            [r EXCEPT !.reviewReasons.otherDescription = e.v]

RECURSIVE Deviate(_)
Deviate(k) ==
    IF k = 0 THEN {BaseRequest}
    ELSE LET prev == Deviate(k - 1)
         IN  prev \cup {Apply(r, e) : r \in prev, e \in Edits}

\* The elements a single-element body is drawn from: BaseRequest with at
\* most MaxDeviations changes
Requests == Deviate(MaxDeviations)

\* The elements a body of any length is drawn from
BodyRequests == Deviate(MaxBodyDeviations)

NoKey == "<absent>"
ApiKeys == {NoKey, "k1", "k2"}

----------------------------------------------------------------------------
(* The endpoint *)

NoResponse == [code |-> 0, status |-> "", receivedItems |-> 0]

HandlerWithoutEmptyCheck(n) ==
    [code |-> 200, status |-> "ACK", receivedItems |-> n]

HandlerCountsOne(n) ==
    IF n = 0 THEN [code |-> 400, status |-> "", receivedItems |-> 0]
    ELSE [code |-> 200, status |-> "ACK", receivedItems |-> 1]

\* The body of create_review_request, n = len(payload)
Handler(n) ==
    IF n = 0 THEN [code |-> 400, status |-> "", receivedItems |-> 0]
    ELSE [code |-> 200, status |-> "ACK", receivedItems |-> n]

Init ==
    /\ pc = "idle"
    /\ apiKey = NoKey
    /\ bodyLen = 0
    /\ idx = 0
    /\ raw = <<>>
    /\ item = <<>>
    /\ errors = {}
    /\ topEvaluated = FALSE
    /\ failed = FALSE
    /\ payloadLen = 0
    /\ response = NoResponse
    /\ fin = Null
    /\ fout = <<>>

\* A POST arrives: its x-api-key header and a JSON array of n elements
Receive(key, n) ==
    /\ pc = "idle"
    /\ pc' = "item"
    /\ apiKey' = key
    /\ bodyLen' = n
    /\ UNCHANGED <<idx, raw, item, errors, topEvaluated, failed, payloadLen,
                   response, fin, fout>>

\* The next element, one of elements, has its fields and nested models
\* validated
ValidateFields(elements) ==
    /\ pc = "item"
    /\ idx < bodyLen
    /\ \E r \in elements :
          /\ raw' = <<r>>
          /\ errors' = ValidateRequestFields(r).errors
    /\ pc' = "fields"
    /\ item' = <<>>
    /\ topEvaluated' = FALSE
    /\ UNCHANGED <<apiKey, bodyLen, idx, failed, payloadLen, response, fin,
                   fout>>

\* ReviewRequest's model validator runs on the element
BusinessRules ==
    /\ pc = "fields"
    /\ RequestRulesRun(errors)
    /\ LET self == ValidateRequestFields(raw[1]).value
           errs == errors \cup validate_business_rules(self)
       IN  /\ errors' = errs
           /\ item' = IF errs = {} THEN <<self>> ELSE <<>>
           /\ payloadLen' = IF errs = {} THEN payloadLen + 1 ELSE payloadLen
           /\ failed' = (failed \/ errs # {})
    /\ topEvaluated' = TRUE
    /\ idx' = idx + 1
    /\ pc' = "validated"
    /\ UNCHANGED <<apiKey, bodyLen, raw, response, fin, fout>>

\* The element has field errors: its model validator is skipped
RejectItem ==
    /\ pc = "fields"
    /\ ~RequestRulesRun(errors)
    /\ failed' = TRUE
    /\ idx' = idx + 1
    /\ pc' = "validated"
    /\ UNCHANGED <<apiKey, bodyLen, raw, item, errors, topEvaluated,
                   payloadLen, response, fin, fout>>

\* Validation moves on to the rest of the array: the element's own data
\* goes out of scope, its outcome stays in failed and payloadLen
Advance ==
    /\ pc = "validated"
    /\ pc' = "item"
    /\ raw' = <<>>
    /\ item' = <<>>
    /\ errors' = {}
    /\ topEvaluated' = FALSE
    /\ UNCHANGED <<apiKey, bodyLen, idx, failed, payloadLen, response, fin,
                   fout>>

\* Some element failed validation: the framework answers 422
ValidationErrorResponse ==
    /\ pc = "item"
    /\ idx = bodyLen
    /\ failed
    /\ response' = [code |-> 422, status |-> "", receivedItems |-> 0]
    /\ pc' = "done"
    /\ UNCHANGED <<apiKey, bodyLen, idx, raw, item, errors, topEvaluated,
                   failed, payloadLen, fin, fout>>

\* Every element validated: the handler runs
create_review_request ==
    /\ pc = "item"
    /\ idx = bodyLen
    /\ ~failed
    /\ response' = Handler(payloadLen)
    /\ pc' = "done"
    /\ UNCHANGED <<apiKey, bodyLen, idx, raw, item, errors, topEvaluated,
                   failed, payloadLen, fin, fout>>

Next ==
    \/ \E key \in ApiKeys, n \in 0..MaxItems : Receive(key, n)
    \/ ValidateFields(BodyRequests)
    \/ BusinessRules
    \/ RejectItem
    \/ Advance
    \/ ValidationErrorResponse
    \/ create_review_request

\* POSTs of any length, with or without a key
Spec == Init /\ [][Next]_vars

NextItem ==
    \/ Receive(NoKey, 1)
    \/ ValidateFields(Requests)
    \/ BusinessRules
    \/ RejectItem
    \/ Advance
    \/ ValidationErrorResponse
    \/ create_review_request

\* POSTs of one element, drawn from the larger set Requests
SpecItem == Init /\ [][NextItem]_vars

----------------------------------------------------------------------------
(* The field rules on their own: one raw value, one validator applied *)

InitField ==
    /\ pc = "field"
    /\ fin \in FieldInputs
    /\ fout = <<>>
    /\ apiKey = NoKey
    /\ bodyLen = 0
    /\ idx = 0
    /\ raw = <<>>
    /\ item = <<>>
    /\ errors = {}
    /\ topEvaluated = FALSE
    /\ failed = FALSE
    /\ payloadLen = 0
    /\ response = NoResponse

Applied(rule, r) ==
    /\ pc = "field"
    /\ fout = <<>>
    /\ fout' = <<[rule |-> rule, r |-> r]>>
    /\ UNCHANGED <<pc, apiKey, bodyLen, idx, raw, item, errors, topEvaluated,
                   failed, payloadLen, response, fin>>

ApplyPhysicianNotEmpty == Applied("physician", Physician_not_empty(fin))

ApplyProfessionalNotEmpty ==
    Applied("professional", Professional_not_empty(fin))

ApplyRequestNotEmpty == Applied("request", Request_not_empty(fin))

ApplyCpf == Applied("cpf", CpfField(fin))

NextField ==
    \/ ApplyPhysicianNotEmpty
    \/ ApplyProfessionalNotEmpty
    \/ ApplyRequestNotEmpty
    \/ ApplyCpf

SpecField == InitField /\ [][NextField]_vars

----------------------------------------------------------------------------
(* What the rules require of an input, stated on the input alone *)

IsBlank(s) == \A i \in 1..Len(s) : s[i] \in Whitespace

\* s without its leading and trailing whitespace, for s not blank
Core(s) ==
    LET ink == {i \in 1..Len(s) : s[i] \notin Whitespace}
        first == CHOOSE i \in ink : \A k \in ink : i <= k
        last == CHOOSE i \in ink : \A k \in ink : k <= i
    IN  [i \in 1..(last - first + 1) |-> s[first + i - 1]]

\* The text a raw value stands for: a string itself, a number in decimal
TextOf(v) == IF v.tag = "int" THEN Decimal(v.n) ELSE v.s

TextOk(v) == v.tag # "null" /\ ~IsBlank(TextOf(v))

CpfOk(v) ==
    /\ TextOk(v)
    /\ Len(Core(TextOf(v))) = CpfLen
    /\ \A i \in 1..CpfLen : Core(TextOf(v))[i] \in Digits

EmailOk(v) == v.tag = "str" /\ ~IsBlank(v.s) /\ IsEmailShape(Core(v.s))

ProfessionalOk(opt) ==
    \/ opt = <<>>
    \/ TextOk(opt[1].professionalCode) /\ TextOk(opt[1].professionalName)

AllFlagsFalse(rr) ==
    /\ ~rr.lateralityError
    /\ ~rr.orthographicError
    /\ ~rr.diagnosticDivergence
    /\ ~rr.wrongExamTopography
    /\ ~rr.measurementDivergence
    /\ ~rr.other

DescriptionTyped(rr) == rr.otherDescription.tag \in {"null", "str"}

DescriptionBlank(rr) ==
    \/ rr.otherDescription.tag = "null"
    \/ rr.otherDescription.tag = "str" /\ IsBlank(rr.otherDescription.s)

ReasonsOk(rr) ==
    /\ DescriptionTyped(rr)
    /\ ~AllFlagsFalse(rr)
    /\ rr.other => ~DescriptionBlank(rr)

\* Every rule below the top-level one: the primitive fields and the
\* nested entities with their own rules
FieldsWellFormed(r) ==
    /\ TextOk(r.accessionNumber)
    /\ TextOk(r.reviewJustification)
    /\ TextOk(r.requestingPhysician.name)
    /\ TextOk(r.requestingPhysician.councilCode)
    /\ TextOk(r.requestingPhysician.professionalRegistrationNumber)
    /\ TextOk(r.requestingPhysician.councilStateCode)
    /\ TextOk(r.requestingPhysician.phone)
    /\ EmailOk(r.requestingPhysician.email)
    /\ CpfOk(r.requestingPhysician.cpf)
    /\ ProfessionalOk(r.assignedProfessional)
    /\ ReasonsOk(r.reviewReasons)

\* Every field-level and cross-field rule
WellFormed(r) ==
    /\ FieldsWellFormed(r)
    /\ r.freeAssignmentFlag \/ r.assignedProfessional # <<>>

\* Every rule that does not involve assignedProfessional
RestWellFormed(r) ==
    WellFormed([r EXCEPT !.assignedProfessional = <<>>,
                         !.freeAssignmentFlag = TRUE])

NoReason == [loc |-> "reviewReasons", msg |-> "no_reason"]
MissingDescription ==
    [loc |-> "reviewReasons", msg |-> "missing_other_description"]
TopLevelErrors ==
    {[loc |-> "", msg |-> m] :
        m \in {"accession_required", "justification_required",
               "assigned_professional_required"}}

----------------------------------------------------------------------------
(* Claims *)

C2_ValidBodyAcknowledged ==
    /\ (pc = "validated" /\ WellFormed(raw[1]))
          => (errors = {} /\ item # <<>>)
    /\ (pc = "validated" /\ idx = 1) => (failed <=> ~WellFormed(raw[1]))
    /\ (pc = "done" /\ bodyLen > 0 /\ ~failed)
          => /\ response.code = 200
             /\ response.status = "ACK"
             /\ response.receivedItems = bodyLen
             /\ response.receivedItems >= 1

C2_Witness ==
    /\ pc = "done"
    /\ bodyLen = MaxItems
    /\ response.status = "ACK"
    /\ response.receivedItems = MaxItems

\* C3 as stated: whenever all six reason flags are false, the reported
\* errors include "no reason selected", whatever the other fields hold.
C3_NoReasonAlwaysReported ==
    (pc = "validated" /\ AllFlagsFalse(raw[1].reviewReasons))
        => NoReason \in errors

\* C3 amended: whenever all six reason flags are false validation fails,
\* and the reported errors include "no reason selected" whatever the other
\* fields hold, provided otherDescription is null or a string; when
\* otherDescription is of another type the rule is not evaluated.
C3_NoReasonReportedWhenTyped ==
    (pc = "validated" /\ AllFlagsFalse(raw[1].reviewReasons))
        => /\ errors # {}
           /\ NoReason \in errors <=> DescriptionTyped(raw[1].reviewReasons)

C3_Witness ==
    /\ pc = "validated"
    /\ AllFlagsFalse(raw[1].reviewReasons)
    /\ raw[1].requestingPhysician.name = Null
    /\ NoReason \in errors

\* C4: with other = true the "missing other description" error is
\* reported when otherDescription is null, empty or whitespace-only and is
\* not reported when it is a non-blank string; with other = false it is
\* never reported.
C4_OtherNeedsDescription ==
    pc = "validated" =>
        LET rr == raw[1].reviewReasons
        IN  /\ (rr.other /\ DescriptionBlank(rr))
                  => MissingDescription \in errors
            /\ (rr.other /\ DescriptionTyped(rr) /\ ~DescriptionBlank(rr))
                  => MissingDescription \notin errors
            /\ ~rr.other => MissingDescription \notin errors

C4_Witness ==
    /\ pc = "validated"
    /\ raw[1].reviewReasons.other
    /\ raw[1].reviewReasons.otherDescription = Str(<<" ">>)
    /\ MissingDescription \in errors

\* C5: each of the three field-level validators fails on null, fails on
\* a value that is empty after trimming, and otherwise returns exactly the
\* value's text without its leading and trailing whitespace.
C5_FieldRule ==
    (fout # <<>> /\ fout[1].rule \in {"physician", "professional", "request"})
        => LET r == fout[1].r
           IN  /\ fin.tag = "null" => ~r.ok
               /\ (fin.tag # "null" /\ IsBlank(TextOf(fin))) => ~r.ok
               /\ TextOk(fin) => (r.ok /\ r.value = Core(TextOf(fin)))

C5_Witness ==
    /\ fout # <<>>
    /\ fout[1].rule = "professional"
    /\ fin = Str(<<" ", "a", "\t">>)
    /\ fout[1].r.ok
    /\ fout[1].r.value = <<"a">>

\* C6: once the field-level rule has passed, the cpf is accepted exactly
\* when its trimmed text is 11 digits: a non-digit character fails, a
\* length other than 11 fails, and no checksum is looked at.
C6_CpfRule ==
    (fout # <<>> /\ fout[1].rule = "cpf" /\ TextOk(fin))
        => LET r == fout[1].r
               cpf == Core(TextOf(fin))
           IN  /\ r.ok <=> (Len(cpf) = CpfLen
                            /\ \A i \in 1..Len(cpf) : cpf[i] \in Digits)
               /\ r.ok => r.value = cpf
               /\ (\E i \in 1..Len(cpf) : cpf[i] \notin Digits)
                     => (~r.ok /\ r.err = "cpf_digits")

C6_Witness ==
    /\ fout # <<>>
    /\ fout[1].rule = "cpf"
    /\ fin = Str(Pad(1) \o CpfBody(CpfLen, 0))
    /\ fout[1].r.ok
    /\ fout[1].r.value = CpfBody(CpfLen, 0)

\* A raw value with the whitespace around a string removed
TrimmedRaw(v) ==
    IF v.tag = "str" /\ ~IsBlank(v.s) THEN Str(Core(v.s)) ELSE v

\* A required text field as validation leaves it: the value's text, trimmed
TextRaw(v) == Str(Core(TextOf(v)))

TrimmedProfessional(opt) ==
    IF opt = <<>> THEN <<>>
    ELSE <<[professionalCode |-> TrimmedRaw(opt[1].professionalCode),
            professionalName |-> TrimmedRaw(opt[1].professionalName)]>>

\* The input with the whitespace around its text fields removed
TrimmedInput(r, description) ==
    [accessionNumber |-> TrimmedRaw(r.accessionNumber),
     requestingPhysician |->
        [name |-> TrimmedRaw(r.requestingPhysician.name),
         councilCode |-> TrimmedRaw(r.requestingPhysician.councilCode),
         professionalRegistrationNumber |->
            TrimmedRaw(r.requestingPhysician.professionalRegistrationNumber),
         councilStateCode |->
            TrimmedRaw(r.requestingPhysician.councilStateCode),
         phone |-> TrimmedRaw(r.requestingPhysician.phone),
         email |-> TrimmedRaw(r.requestingPhysician.email),
         cpf |-> TrimmedRaw(r.requestingPhysician.cpf)],
     freeAssignmentFlag |-> r.freeAssignmentFlag,
     assignedProfessional |-> TrimmedProfessional(r.assignedProfessional),
     reviewJustification |-> TrimmedRaw(r.reviewJustification),
     reviewReasons |->
        [r.reviewReasons EXCEPT !.otherDescription = description]]

\* The input as validation leaves it: required text fields as trimmed
\* text (a number in decimal), the email trimmed, the rest untouched
NormalizedInput(r) ==
    [accessionNumber |-> TextRaw(r.accessionNumber),
     requestingPhysician |->
        [name |-> TextRaw(r.requestingPhysician.name),
         councilCode |-> TextRaw(r.requestingPhysician.councilCode),
         professionalRegistrationNumber |->
            TextRaw(r.requestingPhysician.professionalRegistrationNumber),
         councilStateCode |-> TextRaw(r.requestingPhysician.councilStateCode),
         phone |-> TextRaw(r.requestingPhysician.phone),
         email |-> TextRaw(r.requestingPhysician.email),
         cpf |-> TextRaw(r.requestingPhysician.cpf)],
     freeAssignmentFlag |-> r.freeAssignmentFlag,
     assignedProfessional |->
        IF r.assignedProfessional = <<>> THEN <<>>
        ELSE <<[professionalCode |->
                   TextRaw(r.assignedProfessional[1].professionalCode),
                professionalName |->
                   TextRaw(r.assignedProfessional[1].professionalName)]>>,
     reviewJustification |-> TextRaw(r.reviewJustification),
     reviewReasons |-> r.reviewReasons]

\* C7 as stated: a validated element, serialized, equals the input field
\* for field once the whitespace around the input's text fields is
\* removed (otherDescription trimmed or not), and validates to itself.
C7_RoundTripUpToTrimming ==
    (pc = "validated" /\ errors = {})
        => /\ Serialize(item[1])
                 \in {TrimmedInput(raw[1], raw[1].reviewReasons.otherDescription),
                      TrimmedInput(raw[1],
                          TrimmedRaw(raw[1].reviewReasons.otherDescription))}
           /\ ValidateRequest(Serialize(item[1])) =
                 [errors |-> {}, value |-> item[1]]

\* C7 amended: a validated element, serialized, equals the input field for
\* field except that each required text field holds the trimmed text of
\* the input value (a number given for it becomes its decimal string) and
\* the email is trimmed; the flags, assignedProfessional's presence and
\* otherDescription (untrimmed) are unchanged; and the serialized element
\* validates to the same ReviewRequest.
C7_RoundTripUpToTextConversion ==
    (pc = "validated" /\ errors = {})
        => /\ Serialize(item[1]) = NormalizedInput(raw[1])
           /\ ValidateRequest(Serialize(item[1])) =
                 [errors |-> {}, value |-> item[1]]

C7_Witness ==
    /\ pc = "validated"
    /\ errors = {}
    /\ raw[1].accessionNumber = Num(7)
    /\ raw[1].reviewJustification = Str(<<" ", "a", "\t">>)
    /\ Serialize(item[1]).accessionNumber = Str(<<"7">>)

\* C8: a POST whose x-api-key header is missing or differs from the
\* expected key is answered 403 and not with an ACK, whatever the body.
C8_ApiKeyEnforced ==
    pc = "done" =>
        \E expected \in ApiKeys \ {NoKey} :
            apiKey # expected
                => (response.code = 403 /\ response.status # "ACK")

\* C9: an empty array is answered 400 and not with an ACK, and no ACK
\* carries receivedItems = 0.
C9_EmptyListRejected ==
    /\ (pc = "done" /\ bodyLen = 0)
          => (response.code = 400 /\ response.status # "ACK")
    /\ response.status = "ACK" => response.receivedItems >= 1

C9_Witness ==
    /\ pc = "done"
    /\ bodyLen = 0
    /\ response.code = 400

\* C10: the top-level rule of ReviewRequest is evaluated only on an
\* element whose primitive fields and nested entities all validated; when
\* one of them failed, the rule is not evaluated and none of its errors
\* is reported.
C10_TopLevelRuleLast ==
    /\ topEvaluated => FieldsWellFormed(raw[1])
    /\ (pc = "validated" /\ ~FieldsWellFormed(raw[1]))
          => /\ errors # {}
             /\ errors \cap TopLevelErrors = {}
    /\ (pc = "validated" /\ FieldsWellFormed(raw[1])) => topEvaluated

C10_Witness ==
    /\ pc = "validated"
    /\ ~raw[1].freeAssignmentFlag
    /\ raw[1].assignedProfessional = <<>>
    /\ raw[1].requestingPhysician.name = Null
    /\ ~topEvaluated
    /\ errors = {[loc |-> "requestingPhysician.name", msg |-> "null"]}

====
